---- MODULE Spec2Model ----
(***************************************************************************)
(* Model of the Payme callback reconciliation state machine of             *)
(* server-payme.py: the orders table, the shared secret MERCHANT_KEY, the  *)
(* JSON-RPC dispatcher payme_callback and the six operations it routes to, *)
(* and of the Click callbacks prepare and complete on the same table.      *)
(*                                                                         *)
(* Python None / SQL NULL / an absent dict key is the empty tuple None;    *)
(* a present value v is the one-element tuple Some(v).                     *)
(*                                                                         *)
(* The orders table is taken to have the columns the handlers read and     *)
(* write (amount, transaction_id, create_time, perform_time, cancel_time,  *)
(* cancel_reason): CREATE TABLE IF NOT EXISTS keeps an existing table.     *)
(***************************************************************************)
EXTENDS Integers, Sequences, FiniteSets, TLC

VARIABLES
    orders,         \* the orders table: order_id -> row (Click flow:
                    \* merchant_trans_id -> row)
    now,            \* the wall clock read by int(time.time() * 1000)
    MERCHANT_KEY,   \* os.environ["MERCHANT_KEY"]
    last,           \* the most recent callback: request, response, effect
    turn,           \* flips on every handled callback
    done,           \* first successful result of each mutating call
    th              \* concurrent handlers: position, request, fetched row

vars == <<orders, now, MERCHANT_KEY, last, turn, done, th>>

-----------------------------------------------------------------------------
(* Bounds *)

MaxTime == 3

-----------------------------------------------------------------------------
(* Values *)

None == <<>>
Some(v) == <<v>>
Val(o) == o[1]

\* Python truthiness of an optional string: None and "" are falsy.
Truthy(o) == o # None /\ o # Some("")

OrderIds == {"A1"}                          \* ids uuid4 can hand out
UnknownAccounts == {None, Some("ZZ")}       \* no / no such account.order_id
AmountInputs == {10}                        \* amount posted to /order/create
ItemInputs == {<<"mug">>}                   \* items posted to /order/create
Amounts == {Some(1000), Some(999)}          \* params.amount
TxIds == {None, Some("T1"), Some("T2")}     \* params.id
Reasons == {Some(3), Some(5)}               \* params.reason
Keys == {"k1", "k2"}                        \* secrets
Passwords == {None, Some("k1"), Some("k2")} \* params.password
ReqIds == {7}                               \* envelope id

\* params as a total record: a key that is absent in the request is None,
\* which is what params.get(key) returns for it.
NoParams ==
    [order_id |-> None, amount |-> None, id |-> None,
     reason |-> None, password |-> None]

Envelope(method, params, req_id) ==
    [jsonrpc |-> Some("2.0"), method |-> Some(method),
     params |-> Some(params), id |-> Some(req_id)]

\* params that is a JSON array instead of an object: it has no keys
NotAnObject == [array |-> <<>>]
IsObject(params) == "order_id" \in DOMAIN params

\* What request.get_json() finds in the body: a JSON object, the JSON null,
\* a JSON array, or nothing it can parse (it raises).
JsonObject(req_json) == [kind |-> "object", json |-> req_json]
JsonNull == [kind |-> "null", json |-> None]
JsonArray == [kind |-> "array", json |-> None]
Unparsable == [kind |-> "unparsable", json |-> None]

\* An exception that leaves the view function: the framework answers with
\* its HTTP 500 page, which is no JSON-RPC envelope.
Raised(exception) == [raised |-> exception]

\* A header value is the sequence of its parts, " " being whitespace.
\* str.strip() drops the whitespace at both ends.
RECURSIVE LStrip(_)
LStrip(s) == IF s # <<>> /\ Head(s) = " " THEN LStrip(Tail(s)) ELSE s

RECURSIVE RStrip(_)
RStrip(s) ==
    IF s # <<>> /\ s[Len(s)] = " "
    THEN RStrip(SubSeq(s, 1, Len(s) - 1))
    ELSE s

Strip(s) == RStrip(LStrip(s))

\* The statement of a handler that the database fails, if any.
Faults == {"none", "select", "update"}

\* "Basic " + base64("Paycom:" + key): injective in key.
BasicAuth(key) == <<"Basic", "Paycom", key>>

-----------------------------------------------------------------------------
(* Error catalog *)

make_error_response(req_id, code, message, data) ==
    [error |-> [code |-> code,
                message |-> [ru |-> message, uz |-> message, en |-> message],
                data |-> data],
     id |-> req_id]

error_authorization(req_id) ==
    make_error_response(req_id, -32504, "Error during authorization", None)

error_invalid_json ==
    make_error_response(0, -32700, "Could not parse JSON", None)

error_order_id(req_id) ==
    make_error_response(req_id, -31099, "Order number cannot be found",
                        Some("order"))

error_amount(req_id) ==
    make_error_response(req_id, -31001, "Order amount is incorrect",
                        Some("amount"))

error_has_another_transaction(req_id) ==
    make_error_response(req_id, -31099,
                        "Other transaction for this order is in progress",
                        Some("order"))

error_unknown(req_id) ==
    make_error_response(req_id, -31008, "Unknown error", None)

error_transaction(req_id) ==
    make_error_response(req_id, -31003, "Transaction number is wrong",
                        Some("id"))

error_cancelled_transaction(req_id) ==
    make_error_response(req_id, -31008,
                        "Transaction was cancelled or refunded",
                        Some("order"))

error_cancel(req_id) ==
    make_error_response(req_id, -31007,
                        "It is impossible to cancel. The order is completed",
                        Some("order"))

error_password(req_id) ==
    make_error_response(req_id, -32400, "Cannot change the password",
                        Some("password"))

error_unknown_method(req_id, method) ==
    make_error_response(req_id, -32601, "Unknown method", Some(method))

-----------------------------------------------------------------------------
(* Order store *)

\* Mutant: an id that matches no row fetches some row of the table.
Select_any(db, order_id) ==
    IF order_id # None /\ Val(order_id) \in DOMAIN db
    THEN Some(db[Val(order_id)])
    ELSE IF order_id # None /\ DOMAIN db # {}
         THEN Some(db[CHOOSE k \in DOMAIN db : TRUE])
    ELSE None

\* SELECT * FROM orders WHERE order_id = %s ; fetchone()
Select(db, order_id) ==
    IF order_id # None /\ Val(order_id) \in DOMAIN db
    THEN Some(db[Val(order_id)])
    ELSE None

\* UPDATE orders SET <fields> WHERE order_id = %s
Update(db, order_id, fields) ==
    [k \in DOMAIN db |->
        IF k = Val(order_id)
        THEN [f \in DOMAIN db[k] |->
                IF f \in DOMAIN fields THEN fields[f] ELSE db[k][f]]
        ELSE db[k]]

\* INSERT INTO orders (order_id, amount, status, items): other columns NULL
NewOrder(amount_coins, items) ==
    [amount |-> amount_coins, status |-> "new", items |-> items,
     transaction_id |-> None, create_time |-> None, perform_time |-> None,
     cancel_time |-> None, cancel_reason |-> None]

\* What a handler does once it has fetched the row: the response it returns,
\* the UPDATE it executes (None: no UPDATE) and the secret it leaves.
Outcome(response, update, key) ==
    [response |-> response, update |-> update, key |-> key]

\* The store after the handler's UPDATE, if it executed one.
Written(db, order_id, out) ==
    IF out.update = None THEN db ELSE Update(db, order_id, Val(out.update))

Result(result, req_id) == [result |-> result, id |-> req_id]

Transaction(order_id) == <<"000", Val(order_id)>>    \* "000" + order_id

-----------------------------------------------------------------------------
(* CheckPerformTransaction *)

\* Mutant: an allowed payment reserves the order.
check_perform_fetched_reserving(params, req_id, order, key) ==
    LET order_id == params.order_id
    IN  IF ~Truthy(order_id) THEN Outcome(error_order_id(req_id), None, key)
        ELSE IF order = None THEN Outcome(error_order_id(req_id), None, key)
        ELSE IF Some(Val(order).amount) # params.amount
             THEN Outcome(error_amount(req_id), None, key)
        ELSE Outcome(Result([allow |-> TRUE,
                             detail |-> [receipt_type |-> 0,
                                         items |-> Val(order).items]],
                            req_id),
                     Some([status |-> "processing"]), key)

\* Mutant: only an order still in status new is allowed.
check_perform_fetched_new_only(params, req_id, order, key) ==
    LET order_id == params.order_id
    IN  IF ~Truthy(order_id) THEN Outcome(error_order_id(req_id), None, key)
        ELSE IF order = None THEN Outcome(error_order_id(req_id), None, key)
        ELSE IF Some(Val(order).amount) # params.amount
             THEN Outcome(error_amount(req_id), None, key)
        ELSE IF Val(order).status # "new"
             THEN Outcome(error_unknown(req_id), None, key)
        ELSE Outcome(Result([allow |-> TRUE,
                             detail |-> [receipt_type |-> 0,
                                         items |-> Val(order).items]],
                            req_id), None, key)

check_perform_fetched(params, req_id, order, key) ==
    LET order_id == params.order_id
    IN  IF ~Truthy(order_id) THEN Outcome(error_order_id(req_id), None, key)
        ELSE IF order = None THEN Outcome(error_order_id(req_id), None, key)
        ELSE IF Some(Val(order).amount) # params.amount
             THEN Outcome(error_amount(req_id), None, key)
        ELSE Outcome(Result([allow |-> TRUE,
                             detail |-> [receipt_type |-> 0,
                                         items |-> Val(order).items]],
                            req_id), None, key)

-----------------------------------------------------------------------------
(* CreateTransaction *)

\* status "new": UPDATE create_time, transaction_id, status; state 1
create_new(order_id, transaction_id, current_time, req_id, key) ==
    Outcome(Result([create_time |-> Some(current_time),
                    transaction |-> Transaction(order_id),
                    state |-> 1], req_id),
            Some([create_time |-> Some(current_time),
                  transaction_id |-> transaction_id,
                  status |-> "processing"]),
            key)

\* Mutant: the replay answers with a fresh clock value.
create_processing_fresh(order, order_id, transaction_id, current_time, req_id, key) ==
    IF order.transaction_id = transaction_id
    THEN Outcome(Result([create_time |-> Some(current_time),
                         transaction |-> Transaction(order_id),
                         state |-> 1], req_id), None, key)
    ELSE Outcome(error_has_another_transaction(req_id), None, key)

\* Mutant: the transaction ids are not compared.
create_processing_any(order, order_id, transaction_id, current_time, req_id, key) ==
    Outcome(Result([create_time |-> order.create_time,
                    transaction |-> Transaction(order_id),
                    state |-> 1], req_id), None, key)

\* Mutant: another transaction id takes the order over.
create_processing_takeover(order, order_id, transaction_id, current_time, req_id, key) ==
    IF order.transaction_id = transaction_id
    THEN Outcome(Result([create_time |-> order.create_time,
                         transaction |-> Transaction(order_id),
                         state |-> 1], req_id), None, key)
    ELSE Outcome(Result([create_time |-> order.create_time,
                         transaction |-> Transaction(order_id),
                         state |-> 1], req_id),
                 Some([transaction_id |-> transaction_id]), key)

\* status "processing": the stored transaction again, or a conflict
create_processing(order, order_id, transaction_id, current_time, req_id, key) ==
    IF order.transaction_id = transaction_id
    THEN Outcome(Result([create_time |-> order.create_time,
                         transaction |-> Transaction(order_id),
                         state |-> 1], req_id), None, key)
    ELSE Outcome(error_has_another_transaction(req_id), None, key)

\* Mutant: on an order in processing the transaction ids are compared
\* before the amounts.
create_fetched_id_first(params, req_id, order, clock, key) ==
    LET order_id == params.order_id
        transaction_id == params.id
        current_time == clock
    IN  IF ~Truthy(order_id) THEN Outcome(error_order_id(req_id), None, key)
        ELSE IF order = None THEN Outcome(error_order_id(req_id), None, key)
        ELSE IF /\ Val(order).status = "processing"
                /\ Val(order).transaction_id # transaction_id
             THEN Outcome(error_has_another_transaction(req_id), None, key)
        ELSE IF Some(Val(order).amount) # params.amount
             THEN Outcome(error_amount(req_id), None, key)
        ELSE IF Val(order).status = "new"
             THEN create_new(order_id, transaction_id, current_time,
                             req_id, key)
        ELSE IF Val(order).status = "processing"
             THEN create_processing(Val(order), order_id, transaction_id,
                                    current_time, req_id, key)
        ELSE Outcome(error_unknown(req_id), None, key)

create_fetched(params, req_id, order, clock, key) ==
    LET order_id == params.order_id
        transaction_id == params.id
        current_time == clock
    IN  IF ~Truthy(order_id) THEN Outcome(error_order_id(req_id), None, key)
        ELSE IF order = None THEN Outcome(error_order_id(req_id), None, key)
        ELSE IF Some(Val(order).amount) # params.amount
             THEN Outcome(error_amount(req_id), None, key)
        ELSE IF Val(order).status = "new"
             THEN create_new(order_id, transaction_id, current_time,
                             req_id, key)
        ELSE IF Val(order).status = "processing"
             THEN create_processing(Val(order), order_id, transaction_id,
                                    current_time, req_id, key)
        ELSE Outcome(error_unknown(req_id), None, key)

-----------------------------------------------------------------------------
(* PerformTransaction *)

\* Mutant: the transaction id is compared only while the order is processing.
perform_mismatch_processing_only(order, transaction_id) ==
    order.status = "processing" /\ order.transaction_id # transaction_id

\* order["transaction_id"] != transaction_id
perform_mismatch(order, transaction_id) ==
    order.transaction_id # transaction_id

\* status "processing": UPDATE perform_time, status; state 2
perform_processing(order_id, current_time, req_id, key) ==
    Outcome(Result([transaction |-> Transaction(order_id),
                    perform_time |-> Some(current_time),
                    state |-> 2], req_id),
            Some([perform_time |-> Some(current_time),
                  status |-> "completed"]),
            key)

\* Mutant: the replay answers with a fresh clock value.
perform_completed_fresh(order, order_id, clock, req_id, key) ==
    Outcome(Result([transaction |-> Transaction(order_id),
                    perform_time |-> Some(clock),
                    state |-> 2], req_id), None, key)

\* Mutant: the replay runs the UPDATE of the processing branch again.
perform_completed_again(order, order_id, clock, req_id, key) ==
    Outcome(Result([transaction |-> Transaction(order_id),
                    perform_time |-> Some(clock),
                    state |-> 2], req_id),
            Some([perform_time |-> Some(clock), status |-> "completed"]),
            key)

\* Mutant: the replay writes the stored perform_time back.
perform_completed_rewrite(order, order_id, clock, req_id, key) ==
    Outcome(Result([transaction |-> Transaction(order_id),
                    perform_time |-> order.perform_time,
                    state |-> 2], req_id),
            Some([perform_time |-> order.perform_time]), key)

\* status "completed": the stored perform_time again
perform_completed(order, order_id, clock, req_id, key) ==
    Outcome(Result([transaction |-> Transaction(order_id),
                    perform_time |-> order.perform_time,
                    state |-> 2], req_id), None, key)

perform_fetched(params, req_id, order, clock, key) ==
    LET order_id == params.order_id
        transaction_id == params.id
    IN  IF ~Truthy(order_id) THEN Outcome(error_order_id(req_id), None, key)
        ELSE IF order = None THEN Outcome(error_order_id(req_id), None, key)
        ELSE IF perform_mismatch(Val(order), transaction_id)
             THEN Outcome(error_transaction(req_id), None, key)
        ELSE IF Val(order).status = "processing"
             THEN perform_processing(order_id, clock, req_id, key)
        ELSE IF Val(order).status = "completed"
             THEN perform_completed(Val(order), order_id, clock, req_id, key)
        ELSE IF Val(order).status \in {"cancelled", "refunded"}
             THEN Outcome(error_cancelled_transaction(req_id), None, key)
        ELSE Outcome(error_unknown(req_id), None, key)

-----------------------------------------------------------------------------
(* CheckTransaction *)

\* order.get(field) or 0
OrZero(t) == IF t = None \/ t = Some(0) THEN 0 ELSE Val(t)

check_fetched(params, req_id, order, key) ==
    LET order_id == params.order_id
        transaction_id == params.id
        state_val == CASE Val(order).status = "processing" -> 1
                       [] Val(order).status = "completed" -> 2
                       [] Val(order).status = "cancelled" -> -1
                       [] Val(order).status = "refunded" -> -2
                       [] OTHER -> 0
    IN  IF ~Truthy(order_id) THEN Outcome(error_order_id(req_id), None, key)
        ELSE IF order = None THEN Outcome(error_order_id(req_id), None, key)
        ELSE IF Val(order).transaction_id # transaction_id
             THEN Outcome(error_transaction(req_id), None, key)
        ELSE Outcome(Result([create_time |-> OrZero(Val(order).create_time),
                             perform_time |-> OrZero(Val(order).perform_time),
                             cancel_time |-> OrZero(Val(order).cancel_time),
                             transaction |-> Transaction(order_id),
                             state |-> state_val,
                             reason |-> Val(order).cancel_reason],
                            req_id), None, key)

-----------------------------------------------------------------------------
(* CancelTransaction *)

cancel_result(order_id, cancel_time, state, req_id) ==
    Result([transaction |-> Transaction(order_id),
            cancel_time |-> cancel_time,
            state |-> state], req_id)

\* status "new" or "processing": UPDATE cancel_time, status, cancel_reason
cancel_active(order_id, reason, current_time, req_id, key) ==
    Outcome(cancel_result(order_id, Some(current_time), -1, req_id),
            Some([cancel_time |-> Some(current_time),
                  status |-> "cancelled",
                  cancel_reason |-> reason]),
            key)

\* Mutant: a completed order is cancelled like one in processing.
cancel_completed_as_cancelled(order_id, reason, current_time, req_id, key) ==
    Outcome(cancel_result(order_id, Some(current_time), -1, req_id),
            Some([cancel_time |-> Some(current_time),
                  status |-> "cancelled",
                  cancel_reason |-> reason]),
            key)

\* status "completed": the same UPDATE with status "refunded"
cancel_completed(order_id, reason, current_time, req_id, key) ==
    Outcome(cancel_result(order_id, Some(current_time), -2, req_id),
            Some([cancel_time |-> Some(current_time),
                  status |-> "refunded",
                  cancel_reason |-> reason]),
            key)

\* Mutant: the replay stamps cancel_time and the reason again.
cancel_terminal_restamp(order, order_id, reason, current_time, req_id, key) ==
    Outcome(cancel_result(order_id, Some(current_time),
                          IF order.status = "cancelled" THEN -1 ELSE -2,
                          req_id),
            Some([cancel_time |-> Some(current_time),
                  cancel_reason |-> reason]),
            key)

\* Mutant: a terminal order goes through the branch of new and processing.
cancel_terminal_recancel(order, order_id, reason, current_time, req_id, key) ==
    Outcome(cancel_result(order_id, order.cancel_time, -1, req_id),
            Some([status |-> "cancelled"]),
            key)

\* status "cancelled" or "refunded": the stored cancel_time again
cancel_terminal(order, order_id, reason, current_time, req_id, key) ==
    Outcome(cancel_result(order_id, order.cancel_time,
                          IF order.status = "cancelled" THEN -1 ELSE -2,
                          req_id),
            None, key)

cancel_fetched(params, req_id, order, clock, key) ==
    LET order_id == params.order_id
        transaction_id == params.id
        current_time == clock
    IN  IF ~Truthy(order_id) THEN Outcome(error_order_id(req_id), None, key)
        ELSE IF order = None THEN Outcome(error_order_id(req_id), None, key)
        ELSE IF Val(order).transaction_id # transaction_id
             THEN Outcome(error_transaction(req_id), None, key)
        ELSE IF Val(order).status \in {"new", "processing"}
             THEN cancel_active(order_id, params.reason, current_time,
                                req_id, key)
        ELSE IF Val(order).status = "completed"
             THEN cancel_completed(order_id, params.reason, current_time,
                                   req_id, key)
        ELSE IF Val(order).status \in {"cancelled", "refunded"}
             THEN cancel_terminal(Val(order), order_id, params.reason,
                                  current_time, req_id, key)
        ELSE Outcome(error_cancel(req_id), None, key)

-----------------------------------------------------------------------------
(* ChangePassword *)

\* Mutant: success is answered and the secret is left in place.
payme_change_password_keeps(params, req_id, key) ==
    LET new_password == params.password
    IN  IF Truthy(new_password) /\ Val(new_password) # key
        THEN Outcome(Result([success |-> TRUE], req_id), None, key)
        ELSE Outcome(error_password(req_id), None, key)

payme_change_password(params, req_id, key) ==
    LET new_password == params.password
    IN  IF Truthy(new_password) /\ Val(new_password) # key
        THEN Outcome(Result([success |-> TRUE], req_id), None,
                     Val(new_password))
        ELSE Outcome(error_password(req_id), None, key)

-----------------------------------------------------------------------------
(* Dispatcher *)

EnvelopeFields == {"jsonrpc", "method", "params", "id"}

KnownMethods ==
    {"CheckPerformTransaction", "CreateTransaction", "PerformTransaction",
     "CheckTransaction", "CancelTransaction", "ChangePassword"}

\* The routed operation from its fetchone() on: `order` is the row it fetched.
\* Every operation starts with params.get(...), which params that is not an
\* object does not have.
Routed(method, params, req_id, order, clock, key) ==
    IF method \in KnownMethods /\ ~IsObject(params)
    THEN Outcome(Raised("AttributeError"), None, key)
    ELSE
    CASE method = "CheckPerformTransaction" ->
            check_perform_fetched(params, req_id, order, key)
      [] method = "CreateTransaction" ->
            create_fetched(params, req_id, order, clock, key)
      [] method = "PerformTransaction" ->
            perform_fetched(params, req_id, order, clock, key)
      [] method = "CheckTransaction" ->
            check_fetched(params, req_id, order, key)
      [] method = "CancelTransaction" ->
            cancel_fetched(params, req_id, order, clock, key)
      [] method = "ChangePassword" ->
            payme_change_password(params, req_id, key)
      [] OTHER ->
            Outcome(error_unknown_method(req_id, method), None, key)

\* Mutant: the credential is compared before the fields are looked for.
payme_callback_checks_auth_first(body, auth_header, key) ==
    LET req_json == body.json
        expected_auth == BasicAuth(key)
    IN  IF body.kind = "unparsable" THEN Some(error_invalid_json)
        ELSE IF body.kind = "null" THEN Some(Raised("TypeError"))
        ELSE IF body.kind = "array" THEN Some(error_invalid_json)
        ELSE IF Strip(auth_header) # expected_auth
             THEN Some(error_authorization(IF req_json.id = None THEN 0
                                           ELSE Val(req_json.id)))
        ELSE IF \E field \in EnvelopeFields : req_json[field] = None
             THEN Some(error_invalid_json)
        ELSE None

\* Mutant: ChangePassword goes on without its credential being compared.
payme_callback_checks_password_open(body, auth_header, key) ==
    LET req_json == body.json
        expected_auth == BasicAuth(key)
    IN  IF body.kind = "unparsable" THEN Some(error_invalid_json)
        ELSE IF body.kind = "null" THEN Some(Raised("TypeError"))
        ELSE IF body.kind = "array" THEN Some(error_invalid_json)
        ELSE IF \E field \in EnvelopeFields : req_json[field] = None
             THEN Some(error_invalid_json)
        ELSE IF /\ req_json.method # Some("ChangePassword")
                /\ Strip(auth_header) # expected_auth
             THEN Some(error_authorization(Val(req_json.id)))
        ELSE None

\* The checks before the dispatch: the response that ends the request there,
\* or None when the request goes on to its operation. get_json() that raises
\* is caught; `field not in None` raises and is not.
payme_callback_checks(body, auth_header, key) ==
    LET req_json == body.json
        expected_auth == BasicAuth(key)
    IN  IF body.kind = "unparsable" THEN Some(error_invalid_json)
        ELSE IF body.kind = "null" THEN Some(Raised("TypeError"))
        ELSE IF body.kind = "array" THEN Some(error_invalid_json)
        ELSE IF \E field \in EnvelopeFields : req_json[field] = None
             THEN Some(error_invalid_json)
        ELSE IF Strip(auth_header) # expected_auth
             THEN Some(error_authorization(Val(req_json.id)))
        ELSE None

\* Whether the operation executes its SELECT.
Selects(method, params) ==
    /\ method \in KnownMethods \ {"ChangePassword"}
    /\ IsObject(params)
    /\ Truthy(params.order_id)

\* One whole request: the checks, then the routed operation with its SELECT
\* and its UPDATE. Gives the response, the store and the secret it leaves,
\* and the UPDATE it executed. A statement that fails raises out of
\* execute(); the connection is in autocommit, so the row stays as it was.
payme_callback(body, auth_header, db, clock, key, fault) ==
    LET req_json == body.json
        early == payme_callback_checks(body, auth_header, key)
        req_id == Val(req_json.id)
        method == Val(req_json.method)
        params == Val(req_json.params)
        order == IF IsObject(params) THEN Select(db, params.order_id)
                 ELSE None
        out == Routed(method, params, req_id, order, clock, key)
        untouched(response) ==
            [response |-> response, orders |-> db, key |-> key,
             update |-> None]
    IN  IF early # None THEN untouched(Val(early))
        ELSE IF fault = "select" /\ Selects(method, params)
             THEN untouched(Raised("psycopg2.Error"))
        ELSE IF fault = "update" /\ out.update # None
             THEN untouched(Raised("psycopg2.Error"))
        ELSE [response |-> out.response,
              orders |-> Written(db, params.order_id, out),
              key |-> out.key, update |-> out.update]

-----------------------------------------------------------------------------
(* Callbacks handled one at a time *)

Mutating == {"CreateTransaction", "PerformTransaction", "CancelTransaction"}

Succeeded(resp) == "result" \in DOMAIN resp

\* No callback handled since the store was last set up.
NoCall ==
    [req |-> None, resp |-> None, at |-> 0, before |-> <<>>, prev |-> None,
     first |-> None, update |-> None, key |-> None, body |-> None,
     auth |-> None, fault |-> "none"]

Threads == {1, 2}
Idle == [pc |-> "idle", method |-> None, params |-> None, order |-> None,
         resp |-> None, wrote |-> FALSE]

Init ==
    /\ orders = <<>>
    /\ now = 1
    /\ MERCHANT_KEY \in Keys
    /\ last = NoCall
    /\ turn = 0
    /\ done = {}
    /\ th = [t \in Threads |-> Idle]

\* time passes between two handled requests
Tick ==
    /\ now < MaxTime
    /\ now' = now + 1
    /\ UNCHANGED <<orders, MERCHANT_KEY, last, turn, done, th>>

\* POST /order/create: a fresh uuid4, amount in coins, status "new"
payme_create_order ==
    \E order_id \in OrderIds \ DOMAIN orders, amount \in AmountInputs,
       items \in ItemInputs :
        /\ orders' = (order_id :> NewOrder(amount * 100, items)) @@ orders
        /\ last' = NoCall
        /\ UNCHANGED <<now, MERCHANT_KEY, turn, done, th>>

\* The first successful result of the same mutating call, if it was made.
FirstResult(method, params) ==
    IF \E d \in done : d.method = method /\ d.params = params
    THEN Some((CHOOSE d \in done :
                 d.method = method /\ d.params = params).result)
    ELSE None

\* POST /payme/callback with a well-formed envelope and the credential of the
\* current secret. `last` keeps the request, the response, the time of the
\* call, the store the handler found, for a CreateTransaction the response
\* of the call before when that was the same call, the first successful
\* result of this call when it is a replay, the UPDATE the handler executed
\* and the secret it found.
Callback(method, params, req_id) ==
    LET req_json == Envelope(method, params, req_id)
        auth_header == BasicAuth(MERCHANT_KEY)
    IN  \E out \in {payme_callback(JsonObject(req_json), auth_header, orders,
                                   now, MERCHANT_KEY, "none")},
           first \in {FirstResult(method, params)} :
            /\ orders' = out.orders
            /\ MERCHANT_KEY' = out.key
            /\ last' = [req |-> Some(req_json), resp |-> out.response,
                        at |-> now, before |-> orders,
                        prev |-> IF /\ method = "CreateTransaction"
                                    /\ last.req = Some(req_json)
                                 THEN Some([resp |-> last.resp,
                                            changed |-> last.before # orders])
                                 ELSE None,
                        first |-> first, update |-> out.update,
                        key |-> Some(MERCHANT_KEY), body |-> Some("object"),
                        auth |-> Some(auth_header), fault |-> "none"]
            /\ turn' = 1 - turn
            /\ done' = IF /\ method \in Mutating
                          /\ Succeeded(out.response)
                          /\ first = None
                       THEN done \cup {[method |-> method, params |-> params,
                                        result |-> out.response.result]}
                       ELSE done
            /\ UNCHANGED <<now, th>>

\* The requests of each method. A request whose account names no stored order
\* (or no order at all) is answered before any other parameter is read, so
\* one request per method stands for them.
Params(order_id, amount, id, reason) ==
    [NoParams EXCEPT !.order_id = order_id, !.amount = amount, !.id = id,
                     !.reason = reason]

CheckPerformRequests ==
    {Params(Some(o), a, None, None) : o \in OrderIds, a \in Amounts}
    \cup {Params(o, Some(1000), None, None) : o \in UnknownAccounts}

CreateRequests ==
    {Params(Some(o[1]), o[2], o[3], None) :
        o \in OrderIds \X Amounts \X TxIds}
    \cup {Params(o, Some(1000), Some("T1"), None) : o \in UnknownAccounts}

PerformRequests ==
    {Params(Some(o), None, id, None) : o \in OrderIds, id \in TxIds}
    \cup {Params(o, None, Some("T1"), None) : o \in UnknownAccounts}

CancelRequests ==
    {Params(Some(o[1]), None, o[2], o[3]) :
        o \in OrderIds \X TxIds \X Reasons}
    \cup {Params(o, None, Some("T1"), Some(3)) : o \in UnknownAccounts}

CheckPerformTransaction ==
    \E params \in CheckPerformRequests, req_id \in ReqIds :
        Callback("CheckPerformTransaction", params, req_id)

CreateTransaction ==
    \E params \in CreateRequests, req_id \in ReqIds :
        Callback("CreateTransaction", params, req_id)

PerformTransaction ==
    \E params \in PerformRequests, req_id \in ReqIds :
        Callback("PerformTransaction", params, req_id)

CheckTransaction ==
    \E params \in PerformRequests, req_id \in ReqIds :
        Callback("CheckTransaction", params, req_id)

CancelTransaction ==
    \E params \in CancelRequests, req_id \in ReqIds :
        Callback("CancelTransaction", params, req_id)

ChangePassword ==
    \E password \in Passwords, req_id \in ReqIds :
        Callback("ChangePassword",
                 [NoParams EXCEPT !.password = password], req_id)

Next ==
    \/ Tick
    \/ payme_create_order
    \/ CheckPerformTransaction
    \/ CreateTransaction
    \/ PerformTransaction
    \/ CheckTransaction
    \/ CancelTransaction
    \/ ChangePassword

Spec == Init /\ [][Next]_vars

-----------------------------------------------------------------------------
(* Callbacks handled concurrently: the SELECT and the UPDATE of a handler   *)
(* are separate statements on an autocommit connection, and the threaded    *)
(* server runs another handler between them.                                *)

\* The rows the race starts from: the order as payme_create_order inserts it,
\* or as a CreateTransaction with id T1 at time 1 leaves it.
RaceRows ==
    {NewOrder(1000, <<"mug">>),
     [NewOrder(1000, <<"mug">>) EXCEPT !.status = "processing",
                                      !.transaction_id = Some("T1"),
                                      !.create_time = Some(1)]}

RaceInit ==
    /\ orders \in [OrderIds -> RaceRows]
    /\ now = 1
    /\ MERCHANT_KEY \in Keys
    /\ last = NoCall
    /\ turn = 0
    /\ done = {}
    /\ th = [t \in Threads |-> Idle]

RaceRequests ==
    {<<"CreateTransaction",
       [NoParams EXCEPT !.order_id = Some("A1"), !.amount = Some(1000),
                        !.id = id]>> : id \in TxIds \ {None}}
    \cup
    {<<"PerformTransaction",
       [NoParams EXCEPT !.order_id = Some("A1"), !.id = id]>> :
        id \in TxIds \ {None}}
    \cup
    {<<"CancelTransaction",
       [NoParams EXCEPT !.order_id = Some("A1"), !.id = id,
                        !.reason = Some(3)]>> : id \in TxIds \ {None}}

\* a request is routed and its handler runs up to and including fetchone();
\* each thread serves one request
Fetch(t) ==
    /\ th[t].pc = "idle"
    /\ \E r \in RaceRequests :
        th' = [th EXCEPT ![t] = [pc |-> "fetched", method |-> Some(r[1]),
                                 params |-> Some(r[2]),
                                 order |-> Select(orders, r[2].order_id),
                                 resp |-> None, wrote |-> FALSE]]
    /\ UNCHANGED <<orders, now, MERCHANT_KEY, last, turn, done>>

\* the handler runs from fetchone() to its return, on the row it fetched
Finish(t) ==
    /\ th[t].pc = "fetched"
    /\ \E req_id \in ReqIds :
        LET params == Val(th[t].params)
            out == Routed(Val(th[t].method), params, req_id, th[t].order,
                          now, MERCHANT_KEY)
        IN  /\ orders' = Written(orders, params.order_id, out)
            /\ MERCHANT_KEY' = out.key
            /\ th' = [th EXCEPT ![t].pc = "done", ![t].resp = out.response,
                                ![t].wrote = (out.update # None)]
    /\ UNCHANGED <<now, last, turn, done>>

RaceNext ==
    \/ Tick
    \/ \E t \in Threads : Fetch(t)
    \/ \E t \in Threads : Finish(t)

RaceSpec == RaceInit /\ [][RaceNext]_vars

-----------------------------------------------------------------------------
(* Any request to /payme/callback, handled one at a time: whatever body,    *)
(* whatever Authorization header, and a database that may fail a statement. *)

\* The header of either secret, the same followed by whitespace, no header.
AuthHeaders ==
    {BasicAuth(k) : k \in Keys}
    \cup {BasicAuth(k) \o <<" ">> : k \in Keys}
    \cup {<<>>}

\* params that let each order method through on order A1
OrderParams == Params(Some("A1"), Some(1000), Some("T1"), Some(3))

PasswordParams ==
    {[NoParams EXCEPT !.password = password] :
        password \in Passwords \cup {Some("")}}

WellFormed ==
    {Envelope(method, OrderParams, req_id) :
        method \in KnownMethods \ {"ChangePassword"}, req_id \in ReqIds}
    \cup {Envelope("ChangePassword", params, req_id) :
            params \in PasswordParams, req_id \in ReqIds}
    \cup {Envelope(method, NotAnObject, req_id) :
            method \in KnownMethods \cup {"Refund"}, req_id \in ReqIds}
    \cup {Envelope("Refund", NoParams, req_id) : req_id \in ReqIds}

\* envelopes with one of the four fields left out
Lacking ==
    {[Envelope(r[1], r[2], 7) EXCEPT ![field] = None] :
        r \in {<<"CreateTransaction", OrderParams>>,
               <<"ChangePassword", [NoParams EXCEPT !.password = Some("k1")]>>,
               <<"ChangePassword", [NoParams EXCEPT !.password = Some("k2")]>>},
        field \in EnvelopeFields}

Bodies ==
    {JsonObject(req_json) : req_json \in WellFormed \cup Lacking}
    \cup {JsonNull, JsonArray, Unparsable}

Serve(body, auth_header, fault) ==
    \E out \in {payme_callback(body, auth_header, orders, now, MERCHANT_KEY,
                               fault)} :
        /\ orders' = out.orders
        /\ MERCHANT_KEY' = out.key
        /\ last' = [req |-> IF body.kind = "object" THEN Some(body.json)
                            ELSE None,
                    resp |-> out.response, at |-> now, before |-> orders,
                    prev |-> None, first |-> None, update |-> out.update,
                    key |-> Some(MERCHANT_KEY), body |-> Some(body.kind),
                    auth |-> Some(auth_header), fault |-> fault]
        /\ UNCHANGED <<now, turn, done, th>>

\* POST /payme/callback while the database works
Request ==
    \E body \in Bodies, auth_header \in AuthHeaders :
        Serve(body, auth_header, "none")

\* POST /payme/callback while the database fails the SELECT or the UPDATE
RequestStorageFails ==
    \E req_json \in WellFormed, fault \in Faults \ {"none"} :
        Serve(JsonObject(req_json), BasicAuth(MERCHANT_KEY), fault)

GateNext ==
    \/ Tick
    \/ payme_create_order
    \/ Request
    \/ RequestStorageFails

GateSpec == Init /\ [][GateNext]_vars

-----------------------------------------------------------------------------
(* The Click flow: /click-api/prepare and /click-api/complete, handled one  *)
(* at a time. Its rows are found by merchant_trans_id, which the writer of  *)
(* the rows keeps unique, so the store maps merchant_trans_id to the row.   *)

\* a row before any Click callback: is_paid 0 by default, the receipt fields
\* set or not
ClickRows ==
    {[status |-> "new", is_paid |-> 0, cost_info |-> None,
      admin_price |-> a, quantity |-> q, product |-> p] :
        a \in {None, Some(50)}, q \in {None, Some(2)},
        p \in {None, Some("mug")}}

\* request.form: a field that is not posted is None
Form(merchant_trans_id, amount, quantity) ==
    [click_trans_id |-> Some("c9"), merchant_trans_id |-> merchant_trans_id,
     merchant_prepare_id |-> merchant_trans_id, amount |-> amount,
     quantity |-> quantity]

\* float(s) and int(s): the number, or None where Python raises ValueError
ParseFloat(s) == IF s = "50.0" THEN Some(50) ELSE None
ParseInt(s) == IF s = "2" THEN Some(2) ELSE None

ClickError(code, http) == [error |-> code, http |-> http]

\* UPDATE orders SET <fields> WHERE merchant_trans_id = %s
UpdateClick(db, merchant_trans_id, fields) ==
    [k \in DOMAIN db |->
        IF k = merchant_trans_id
        THEN [f \in DOMAIN db[k] |->
                IF f \in DOMAIN fields THEN fields[f] ELSE db[k][f]]
        ELSE db[k]]

\* INSERT INTO orders (merchant_trans_id, status, cost_info)
InsertedClick(cost_info) ==
    [status |-> "pending", is_paid |-> 0, cost_info |-> cost_info,
     admin_price |-> None, quantity |-> None, product |-> None]

\* /click-api/prepare. The INSERT names no order_id: whether the table
\* accepts such a row depends on the table that is there, so it either
\* inserts or raises.
prepare(form, db, insert_ok) ==
    LET merchant_trans_id == Val(form.merchant_trans_id)
        pending == [status |-> "pending", cost_info |-> form.click_trans_id]
    IN  IF \E field \in {"click_trans_id", "merchant_trans_id", "amount"} :
                form[field] = None
        THEN [response |-> ClickError("-8", 400), orders |-> db,
              update |-> None]
        ELSE IF merchant_trans_id \in DOMAIN db
             THEN [response |-> ClickError("0", 200),
                   orders |-> UpdateClick(db, merchant_trans_id, pending),
                   update |-> Some(pending)]
        ELSE IF insert_ok
             THEN [response |-> ClickError("0", 200),
                   orders |-> (merchant_trans_id :>
                                 InsertedClick(form.click_trans_id)) @@ db,
                   update |-> None]
        ELSE [response |-> Raised("psycopg2.IntegrityError"), orders |-> db,
              update |-> None]

\* what `from fiscal import create_fiscal_item` and the call give, and what
\* requests.post to the receipt endpoint gives
FiscalItems == {"created", "raises"}
Receipts == {"200", "non-200", "raises"}

\* generate_auth_header is a function local to create_invoice; the name is
\* not bound in complete, where looking it up raises NameError.
generate_auth_header == Raised("NameError")

\* the first UPDATE of complete
Paid == [is_paid |-> 1, status |-> "processing"]

\* complete from requests.post on: the receipt outcome is put in the
\* response, the order is set to completed
complete_receipt(form, db, receipt) ==
    LET merchant_trans_id == Val(form.merchant_trans_id)
        fiscal_result == IF receipt = "200" THEN [error_code |-> 0]
                         ELSE [error_code |-> -1]
    IN  [response |-> [error |-> "0", http |-> 200,
                       merchant_confirm_id |-> form.merchant_prepare_id,
                       fiscal_response |-> fiscal_result],
         orders |-> UpdateClick(db, merchant_trans_id,
                                [status |-> "completed"]),
         update |-> Some(Paid)]

\* complete from its first UPDATE on
complete_paying(form, db, fiscal_item, receipt) ==
    LET merchant_trans_id == Val(form.merchant_trans_id)
        paid == UpdateClick(db, merchant_trans_id, Paid)
    IN  IF fiscal_item = "raises"
        THEN [response |-> ClickError("-10", 400), orders |-> paid,
              update |-> Some(Paid)]
        ELSE IF "raised" \in DOMAIN generate_auth_header
             THEN [response |-> generate_auth_header, orders |-> paid,
                   update |-> Some(Paid)]
        ELSE complete_receipt(form, paid, receipt)

\* Mutant: only an order that is completed counts as paid.
already_paid_when_completed(order_row) ==
    order_row.is_paid = 1 /\ order_row.status = "completed"

\* order_row.get("is_paid") == 1
already_paid(order_row) == order_row.is_paid = 1

\* /click-api/complete
complete(form, db, fiscal_item, receipt) ==
    LET merchant_trans_id == Val(form.merchant_trans_id)
        row == IF merchant_trans_id \in DOMAIN db
               THEN Some(db[merchant_trans_id]) ELSE None
        refused(code, http) ==
            [response |-> ClickError(code, http), orders |-> db,
             update |-> None]
    IN  IF \E field \in {"click_trans_id", "merchant_trans_id",
                         "merchant_prepare_id", "amount"} :
                form[field] = None
        THEN refused("-8", 400)
        ELSE IF ParseFloat(Val(form.amount)) = None THEN refused("-8", 400)
        ELSE IF row = None \/ Val(row).admin_price \in {None, Some(0)}
             THEN refused("-8", 400)
        ELSE IF Truthy(form.quantity) /\ ParseInt(Val(form.quantity)) = None
             THEN refused("-8", 400)
        ELSE IF ~Truthy(form.quantity)
                /\ Val(row).quantity \in {None, Some(0)}
             THEN refused("-8", 400)
        ELSE IF row = None THEN refused("-5", 404)
        ELSE IF already_paid(Val(row)) THEN refused("-4", 400)
        ELSE complete_paying(form, db, fiscal_item, receipt)

ClickInit ==
    /\ orders \in {<<>>} \cup [{"M1"} -> ClickRows]
    /\ now = 1
    /\ MERCHANT_KEY \in Keys
    /\ last = NoCall
    /\ turn = 0
    /\ done = {}
    /\ th = [t \in Threads |-> Idle]

\* Every amount and quantity for M1; a form without merchant_trans_id and
\* one for M2 are refused or inserted whatever their other fields.
ClickForms ==
    {Form(Some("M1"), a, q) :
        a \in {None, Some("50.0"), Some("abc")},
        q \in {None, Some("2"), Some("x")}}
    \cup {Form(m, Some("50.0"), Some("2")) : m \in {None, Some("M2")}}

\* the receipt endpoint is asked only when the fiscal item was created
Environments ==
    {e \in FiscalItems \X Receipts : e[1] = "raises" => e[2] = "200"}

\* `last` keeps the endpoint and what was posted, the response, the store
\* the handler found and whether its first UPDATE ran.
Click(endpoint, form, environment, out) ==
    /\ orders' = out.orders
    /\ last' = [NoCall EXCEPT !.req = Some([endpoint |-> endpoint,
                                            form |-> form,
                                            environment |-> environment]),
                              !.resp = out.response,
                              !.at = now,
                              !.before = orders,
                              !.update = out.update]
    /\ UNCHANGED <<now, MERCHANT_KEY, turn, done, th>>

Prepare ==
    \E form \in ClickForms, insert_ok \in BOOLEAN :
        Click("prepare", form, <<insert_ok>>,
              prepare(form, orders, insert_ok))

Complete ==
    \E form \in ClickForms, environment \in Environments :
        Click("complete", form, environment,
              complete(form, orders, environment[1], environment[2]))

ClickNext ==
    \/ Prepare
    \/ Complete

ClickSpec == ClickInit /\ [][ClickNext]_vars

-----------------------------------------------------------------------------
(* Reading the last handled callback *)

Called(method) == last.req # None /\ Val(last.req).method = Some(method)
P == Val(Val(last.req).params)          \* its params
Found == P.order_id # None /\ Val(P.order_id) \in DOMAIN last.before
Before == last.before[Val(P.order_id)]  \* the row the handler fetched
After == orders[Val(P.order_id)]        \* the row it left
Failed(code) == "error" \in DOMAIN last.resp /\ last.resp.error.code = code

-----------------------------------------------------------------------------
(* Claims *)

\* C1: two CreateTransaction calls with the same arguments, handled one right
\* after the other, return identical responses (the same create_time
\* included), and the second one changes no order field.
C1_CreateTwiceSameResponse ==
    Called("CreateTransaction") /\ last.prev # None
        => /\ last.resp = Val(last.prev).resp
           /\ orders = last.before

\* The first call did the new -> processing transition and the second one
\* came after the clock had moved on.
C1_Witness ==
    /\ Called("CreateTransaction") /\ last.prev # None
    /\ Val(last.prev).changed
    /\ Succeeded(last.resp) /\ last.resp.result.state = 1
    /\ last.resp.result.create_time # Some(last.at)

\* C2: CreateTransaction with the right amount and a transaction id other
\* than the stored one, on an order in processing, returns error -31099 with
\* data "order" and leaves status, transaction_id and create_time unchanged.
C2_ConflictingCreateRejected ==
    (/\ Called("CreateTransaction") /\ Found
     /\ Before.status = "processing"
     /\ P.amount = Some(Before.amount)
     /\ P.id # Before.transaction_id)
        => /\ Failed(-31099)
           /\ last.resp.error.data = Some("order")
           /\ After.status = Before.status
           /\ After.transaction_id = Before.transaction_id
           /\ After.create_time = Before.create_time

C2_Witness ==
    /\ Called("CreateTransaction") /\ Found
    /\ Before.status = "processing"
    /\ P.amount = Some(Before.amount)
    /\ Before.transaction_id = Some("T1") /\ P.id = Some("T2")
    /\ Failed(-31099)

\* C4: once an order's transaction_id is not null, no step changes or clears
\* it.
C4_TransactionIdNeverChanges ==
    [][\A o \in DOMAIN orders :
          orders[o].transaction_id # None
              => /\ o \in DOMAIN orders'
                 /\ orders'[o].transaction_id = orders[o].transaction_id]_vars

\* A CreateTransaction with another id and the right amount was handled on an
\* order that had its transaction_id set.
C4_Witness ==
    /\ Called("CreateTransaction") /\ Found
    /\ Before.transaction_id # None
    /\ P.id # None /\ P.id # Before.transaction_id
    /\ P.amount = Some(Before.amount)
    /\ After.transaction_id = Before.transaction_id

\* C5: PerformTransaction succeeds (state 2) only with the stored transaction
\* id; with another id it returns -31003 whatever the status and changes no
\* field of the order.
C5_PerformNeedsStoredId ==
    Called("PerformTransaction")
        => /\ Succeeded(last.resp)
                => /\ Found
                   /\ P.id = Before.transaction_id
                   /\ last.resp.result.state = 2
           /\ Found /\ P.id # Before.transaction_id
                => Failed(-31003) /\ orders = last.before

C5_Witness ==
    /\ Called("PerformTransaction") /\ Found
    /\ Before.status = "completed"
    /\ P.id # Before.transaction_id
    /\ Failed(-31003)

\* C6: PerformTransaction with the stored id on an order in processing sets
\* status completed, stamps perform_time with the current time and returns
\* state 2; on an order already completed it returns state 2 with the stored
\* perform_time, the one the first call returned, and writes nothing.
C6_PerformThenReplay ==
    Called("PerformTransaction") /\ Found /\ P.id = Before.transaction_id
        => /\ Before.status = "processing"
                => /\ After = [Before EXCEPT !.status = "completed",
                                             !.perform_time = Some(last.at)]
                   /\ Succeeded(last.resp)
                   /\ last.resp.result.state = 2
                   /\ last.resp.result.perform_time = Some(last.at)
           /\ Before.status = "completed"
                => /\ orders = last.before
                   /\ Succeeded(last.resp)
                   /\ last.resp.result.state = 2
                   /\ last.resp.result.perform_time = Before.perform_time
                   /\ last.first = Some(last.resp.result)

\* A replay on a completed order, after the clock had moved on.
C6_Witness ==
    /\ Called("PerformTransaction") /\ Found
    /\ P.id = Before.transaction_id
    /\ Before.status = "completed"
    /\ Succeeded(last.resp)
    /\ last.resp.result.perform_time # Some(last.at)

\* C7: CancelTransaction with the stored id moves new or processing to
\* cancelled (state -1) and completed to refunded (state -2), stamps
\* cancel_time with the current time, stores the reason, and leaves
\* transaction_id, create_time and perform_time unchanged.
C7_CancelTransitions ==
    (/\ Called("CancelTransaction") /\ Found
     /\ P.id = Before.transaction_id
     /\ Before.status \in {"new", "processing", "completed"})
        => /\ Succeeded(last.resp)
           /\ last.resp.result.state =
                 (IF Before.status = "completed" THEN -2 ELSE -1)
           /\ After = [Before EXCEPT
                         !.status = IF Before.status = "completed"
                                    THEN "refunded" ELSE "cancelled",
                         !.cancel_time = Some(last.at),
                         !.cancel_reason = P.reason]

C7_Witness ==
    /\ Called("CancelTransaction") /\ Found
    /\ P.id = Before.transaction_id
    /\ Before.status = "completed"
    /\ After.status = "refunded"
    /\ After.cancel_reason = Some(5)
    /\ After.perform_time # None

\* C8: CancelTransaction with the stored id on an order already cancelled or
\* refunded returns the stored cancel_time and state -1 or -2, and changes no
\* field of the order, also when it carries another reason.
C8_CancelReplay ==
    (/\ Called("CancelTransaction") /\ Found
     /\ P.id = Before.transaction_id
     /\ Before.status \in {"cancelled", "refunded"})
        => /\ Succeeded(last.resp)
           /\ last.resp.result.cancel_time = Before.cancel_time
           /\ last.resp.result.state =
                 (IF Before.status = "cancelled" THEN -1 ELSE -2)
           /\ orders = last.before

\* A replay with another reason, after the clock had moved on.
C8_Witness ==
    /\ Called("CancelTransaction") /\ Found
    /\ P.id = Before.transaction_id
    /\ Before.status = "refunded"
    /\ P.reason # Before.cancel_reason
    /\ Before.cancel_time # Some(last.at)
    /\ Succeeded(last.resp)

\* C9 as stated: a mutating call that has succeeded before, made again at any
\* later point, returns its first result, no error, and mutates nothing.
C9_ReplayAlwaysOriginal ==
    last.req # None /\ last.first # None /\ P.id # None
        => /\ Succeeded(last.resp)
           /\ last.resp.result = Val(last.first)
           /\ orders = last.before

\* The status the first success of the replayed call left the order in:
\* processing for CreateTransaction, completed for PerformTransaction. A
\* cancelled or refunded order stays so.
StillAsLeft ==
    \/ Called("CreateTransaction") /\ Before.status = "processing"
    \/ Called("PerformTransaction") /\ Before.status = "completed"
    \/ Called("CancelTransaction")

\* C9 amended: a mutating call that has succeeded before, made again, never
\* mutates the order; it returns its first result while the order still has
\* the status that call left it in, and error -31008 once a later
\* PerformTransaction or CancelTransaction has moved the order on.
C9_ReplayWhileStatusKept ==
    last.req # None /\ last.first # None
        => /\ orders = last.before
           /\ IF StillAsLeft
              THEN Succeeded(last.resp) /\ last.resp.result = Val(last.first)
              ELSE Failed(-31008)

\* A replay that is not the call right before, after the clock had moved on,
\* answered with the first result.
C9_Witness ==
    /\ Called("CreateTransaction") /\ last.first # None
    /\ last.prev = None
    /\ Succeeded(last.resp)
    /\ last.resp.result.create_time # Some(last.at)

Allowed ==
    {<<"new", "processing", "CreateTransaction">>,
     <<"processing", "completed", "PerformTransaction">>,
     <<"new", "cancelled", "CancelTransaction">>,
     <<"processing", "cancelled", "CancelTransaction">>,
     <<"completed", "refunded", "CancelTransaction">>}

\* C10: every change of an order's status is new -> processing by
\* CreateTransaction, processing -> completed by PerformTransaction, new or
\* processing -> cancelled or completed -> refunded by CancelTransaction.
C10_StatusPaths ==
    [][\A o \in DOMAIN orders :
          /\ o \in DOMAIN orders'
          /\ orders'[o].status # orders[o].status
                => /\ turn' # turn
                   /\ <<orders[o].status, orders'[o].status,
                        Val(Val(last'.req).method)>> \in Allowed]_vars

\* A PerformTransaction with the stored id was handled on a refunded order.
C10_Witness ==
    /\ Called("PerformTransaction") /\ Found
    /\ P.id = Before.transaction_id
    /\ Before.status = "refunded"
    /\ After.status = "refunded"

Timestamps == {"create_time", "perform_time", "cancel_time"}

\* C11: callbacks handled one at a time write each of create_time,
\* perform_time and cancel_time of an order at most once: an UPDATE sets a
\* timestamp only when the stored one is NULL, it sets it to a time, and a
\* timestamp that is stored is the same after any callback.
C11_TimestampsWrittenOnce ==
    last.update # None
        => \A f \in Timestamps :
            /\ f \in DOMAIN Val(last.update)
                => Before[f] = None /\ Val(last.update)[f] # None
            /\ Before[f] # None => After[f] = Before[f]

\* A completed order is refunded: cancel_time is written for the first time,
\* create_time and perform_time stay as they were written.
C11_Witness ==
    /\ Called("CancelTransaction") /\ Found
    /\ last.update # None
    /\ "cancel_time" \in DOMAIN Val(last.update)
    /\ Before.create_time # None /\ Before.perform_time # None
    /\ Before.cancel_time = None
    /\ After.create_time = Before.create_time
    /\ After.perform_time = Before.perform_time
    /\ After.cancel_time = Some(last.at)

\* C12: CheckPerformTransaction and CheckTransaction only read: whatever the
\* status of the order and whatever the arguments, the handler executes no
\* UPDATE, and the whole order store and the shared secret are the same after
\* the call as before it.
C12_ChecksReadOnly ==
    Called("CheckPerformTransaction") \/ Called("CheckTransaction")
        => /\ last.update = None
           /\ orders = last.before
           /\ Some(MERCHANT_KEY) = last.key

\* A CheckTransaction answered with the state of a refunded order.
C12_Witness ==
    /\ Called("CheckTransaction") /\ Found
    /\ Succeeded(last.resp)
    /\ Before.status = "refunded"
    /\ last.resp.result.state = -2
    /\ orders = last.before

OrderMethods ==
    {"CheckPerformTransaction", "CreateTransaction", "PerformTransaction",
     "CheckTransaction", "CancelTransaction"}

\* C13: for each of the five order methods, a request whose account carries
\* no order_id, or one that matches no stored order, is answered with error
\* -31099; the store is left as it was and no order is created.
C13_UnknownOrderRejected ==
    \A method \in OrderMethods :
        Called(method) /\ ~Found
            => /\ Failed(-31099)
               /\ last.resp.error.data = Some("order")
               /\ last.update = None
               /\ orders = last.before
               /\ DOMAIN orders = DOMAIN last.before

\* A PerformTransaction for an order_id that no stored order has, while
\* another order is stored.
C13_Witness ==
    /\ Called("PerformTransaction")
    /\ P.order_id = Some("ZZ")
    /\ DOMAIN last.before = {"A1"}
    /\ Failed(-31099)
    /\ orders = last.before

\* C14: a CheckPerformTransaction or CreateTransaction for a stored order
\* whose stored amount differs from the supplied one is answered with error
\* -31001 and writes nothing, whatever the status of the order and whatever
\* the transaction id: CreateTransaction compares the amounts before it
\* looks at the status or at the ids.
C14_AmountMismatchRejected ==
    \A method \in {"CheckPerformTransaction", "CreateTransaction"} :
        Called(method) /\ Found /\ Some(Before.amount) # P.amount
            => /\ Failed(-31001)
               /\ last.resp.error.data = Some("amount")
               /\ last.update = None
               /\ orders = last.before

\* A CreateTransaction with a wrong amount and another transaction id on an
\* order in processing: the amount error, not the conflict.
C14_Witness ==
    /\ Called("CreateTransaction") /\ Found
    /\ Some(Before.amount) # P.amount
    /\ Before.status = "processing"
    /\ P.id # Before.transaction_id
    /\ Failed(-31001)
    /\ orders = last.before

Set(row, fields) == \A f \in fields : row[f] # None
Unset(row, fields) == \A f \in fields : row[f] = None

\* C23 as stated: of every stored order, status processing implies
\* transaction_id and create_time set and perform_time and cancel_time
\* unset; completed implies create_time and perform_time set and cancel_time
\* unset; refunded implies the three timestamps set; cancelled implies
\* cancel_time set and perform_time unset; new implies transaction_id and
\* the three timestamps unset.
C23_StatusFields ==
    \A o \in DOMAIN orders :
        LET row == orders[o]
        IN  /\ row.status = "processing"
                => /\ Set(row, {"transaction_id", "create_time"})
                   /\ Unset(row, {"perform_time", "cancel_time"})
            /\ row.status = "completed"
                => /\ Set(row, {"create_time", "perform_time"})
                   /\ Unset(row, {"cancel_time"})
            /\ row.status = "refunded"
                => Set(row, {"create_time", "perform_time", "cancel_time"})
            /\ row.status = "cancelled"
                => /\ Set(row, {"cancel_time"})
                   /\ Unset(row, {"perform_time"})
            /\ row.status = "new"
                => Unset(row, {"transaction_id", "create_time",
                               "perform_time", "cancel_time"})

AllowAnswer(req_id, items) ==
    Result([allow |-> TRUE, detail |-> [receipt_type |-> 0, items |-> items]],
           req_id)

\* C24: the answer of CheckPerformTransaction is decided by whether the
\* order exists and whether the supplied amount is the stored one, not by
\* the status: -31099 for no order, -31001 for another amount, and
\* allow = true for a stored order with that amount also when it is
\* processing, completed, cancelled or refunded.
C24_CheckPerformIgnoresStatus ==
    Called("CheckPerformTransaction")
        => LET req_id == Val(Val(last.req).id)
           IN  last.resp =
                 IF ~Found THEN error_order_id(req_id)
                 ELSE IF Some(Before.amount) # P.amount
                      THEN error_amount(req_id)
                 ELSE AllowAnswer(req_id, Before.items)

\* allow = true for a cancelled order, on which a CreateTransaction with the
\* same account and amount fails whatever its id.
C24_Witness ==
    /\ Called("CheckPerformTransaction") /\ Found
    /\ Before.status = "cancelled"
    /\ Succeeded(last.resp)
    /\ last.resp.result.allow
    /\ \A id \in TxIds :
        ~Succeeded(create_fetched([P EXCEPT !.id = id], 7, Some(After), now,
                                  MERCHANT_KEY).response)

-----------------------------------------------------------------------------
(* Claims about any request, under GateSpec *)

Credential == Val(last.auth)                \* the Authorization header
Secret == Val(last.key)                     \* the secret the request found
Untouched ==
    /\ last.update = None
    /\ orders = last.before
    /\ Some(MERCHANT_KEY) = last.key

LacksField ==
    /\ last.req # None
    /\ \E field \in EnvelopeFields : Val(last.req)[field] = None

\* C15: a request whose JSON object lacks any of jsonrpc, method, params, id
\* is answered with error -32700 and id 0 whatever its credential, a wrong
\* one included: the credential is not looked at before, no operation runs,
\* and no order field and not the secret changes.
C15_LackingFieldRejectedFirst ==
    LacksField
        => /\ last.resp = error_invalid_json
           /\ last.resp.error.code = -32700
           /\ last.resp.id = 0
           /\ Untouched

\* A ChangePassword without id and with the credential of another secret,
\* while an order is stored.
C15_Witness ==
    /\ LacksField
    /\ Val(last.req).method = Some("ChangePassword")
    /\ Val(last.req).id = None
    /\ Credential # BasicAuth(Secret)
    /\ Credential \in {BasicAuth(k) : k \in Keys}
    /\ DOMAIN orders # {}
    /\ Failed(-32700)
    /\ Untouched

\* the body is a JSON object with the four fields
HasEnvelope == last.req # None /\ ~LacksField

Denied ==
    /\ Failed(-32504)
    /\ last.resp = error_authorization(Val(Val(last.req).id))
    /\ Untouched

C17_AlwaysOneOfResultOrError ==
    last.body # None
        => /\ "raised" \notin DOMAIN last.resp
           /\ ("result" \in DOMAIN last.resp) # ("error" \in DOMAIN last.resp)

\* a ChangePassword that passed the credential check
PasswordCall ==
    /\ HasEnvelope
    /\ Val(last.req).method = Some("ChangePassword")
    /\ IsObject(Val(Val(last.req).params))
    /\ Strip(Credential) = BasicAuth(Secret)

NewPassword == Val(Val(last.req).params).password

Replaces == Truthy(NewPassword) /\ Val(NewPassword) # Secret

\* the last request replaced the secret
Replaced ==
    /\ PasswordCall /\ Replaces
    /\ last.resp = Result([success |-> TRUE], Val(Val(last.req).id))
    /\ MERCHANT_KEY = Val(NewPassword)
    /\ last.update = None
    /\ orders = last.before

\* the last request was refused a new secret
Refused ==
    /\ PasswordCall /\ ~Replaces
    /\ Failed(-32400)
    /\ Untouched

\* C18: an authorized ChangePassword with a non-empty password other than
\* the current secret replaces the secret and answers success; the next
\* request with the credential of the old secret is denied with -32504 and
\* one with the credential of the new secret is not. A missing or empty
\* password, or one equal to the secret, is answered -32400 and leaves the
\* secret. ChangePassword changes no order.
C18_ChangePassword ==
    [][/\ (PasswordCall /\ Replaces => Replaced)'
       /\ (PasswordCall /\ ~Replaces => Refused)'
       /\ Replaced /\ HasEnvelope' /\ last' # last
            => /\ Strip(Credential') = BasicAuth(Secret) => Failed(-32504)'
               /\ Strip(Credential') = BasicAuth(MERCHANT_KEY)
                    => ~Failed(-32504)']_vars

\* The secret has been replaced while an order is stored.
C18_Witness ==
    /\ Replaced
    /\ Secret # MERCHANT_KEY
    /\ DOMAIN orders # {}

\* what the last request does while the database works
Unfailed ==
    payme_callback(JsonObject(Val(last.req)), Credential, last.before,
                   last.at, Secret, "none")

\* the database failed a statement that the last request executed
StorageFailed ==
    /\ HasEnvelope
    /\ Strip(Credential) = BasicAuth(Secret)
    /\ \/ /\ last.fault = "select"
          /\ Selects(Val(Val(last.req).method), Val(Val(last.req).params))
       \/ /\ last.fault = "update"
          /\ Unfailed.update # None

\* C19: when the database fails the SELECT or the UPDATE of a Payme
\* operation, the request is answered with an envelope carrying error
\* -31008, and the order is as it was before the request.
C19_StorageFailureAnswered ==
    StorageFailed
        => /\ Failed(-31008)
           /\ orders = last.before

-----------------------------------------------------------------------------
(* Claims about the Click flow, under ClickSpec *)

ClickCalled(endpoint) ==
    last.req # None /\ Val(last.req).endpoint = endpoint
Posted == Val(last.req).form                \* the form of the last callback
ClickBefore == last.before[Val(Posted.merchant_trans_id)]
ClickAfter == orders[Val(Posted.merchant_trans_id)]

\* the posted fields and the stored receipt fields pass the validation of
\* complete, and the order is not paid
PassesChecks ==
    /\ \A field \in {"click_trans_id", "merchant_trans_id",
                      "merchant_prepare_id", "amount"} :
            Posted[field] # None
    /\ ParseFloat(Val(Posted.amount)) # None
    /\ Val(Posted.merchant_trans_id) \in DOMAIN last.before
    /\ ClickBefore.admin_price \notin {None, Some(0)}
    /\ IF Truthy(Posted.quantity)
       THEN ParseInt(Val(Posted.quantity)) # None
       ELSE ClickBefore.quantity \notin {None, Some(0)}
    /\ ClickBefore.is_paid # 1

\* C20: every Complete that passes the field validation and the paid check
\* sets is_paid to 1 and ends with the order in status completed, whether
\* the receipt step succeeds, is answered with a status other than 200, or
\* raises.
C20_CompleteEndsCompleted ==
    ClickCalled("complete") /\ PassesChecks
        => /\ ClickAfter.is_paid = 1
           /\ ClickAfter.status = "completed"

\* the last callback was a Complete for a stored order that is paid
CompleteOnPaid ==
    /\ ClickCalled("complete")
    /\ Posted.merchant_trans_id # None
    /\ Val(Posted.merchant_trans_id) \in DOMAIN last.before
    /\ ClickBefore.is_paid = 1

\* the checks of complete that come before the paid check
PassesValidation ==
    /\ \A field \in {"click_trans_id", "merchant_trans_id",
                      "merchant_prepare_id", "amount"} :
            Posted[field] # None
    /\ ParseFloat(Val(Posted.amount)) # None
    /\ ClickBefore.admin_price \notin {None, Some(0)}
    /\ IF Truthy(Posted.quantity)
       THEN ParseInt(Val(Posted.quantity)) # None
       ELSE ClickBefore.quantity \notin {None, Some(0)}

\* no UPDATE ran and, the receipt being submitted only after the first
\* UPDATE, no receipt was submitted; is_paid and status are as they were
NothingPaid ==
    /\ last.update = None
    /\ "raised" \notin DOMAIN last.resp
    /\ ClickAfter.is_paid = ClickBefore.is_paid
    /\ ClickAfter.status = ClickBefore.status
    /\ orders = last.before

\* C21 as stated: a Complete for an order whose is_paid is 1 is answered
\* with error "-4", submits no receipt and leaves is_paid and status.
C21_PaidAlwaysMinus4 ==
    CompleteOnPaid
        => /\ last.resp = ClickError("-4", 400)
           /\ NothingPaid

\* C21, amended: a Complete for an order whose is_paid is 1 submits no
\* receipt and leaves is_paid and status; it is answered with error "-4"
\* when it passes the validation of the posted and stored fields, which
\* comes first, and with error "-8" when it does not.
C21_PaidRejected ==
    CompleteOnPaid
        => /\ NothingPaid
           /\ last.resp = IF PassesValidation THEN ClickError("-4", 400)
                          ELSE ClickError("-8", 400)

\* A valid Complete for an order that an earlier Complete has paid.
C21_Witness ==
    /\ CompleteOnPaid
    /\ PassesValidation
    /\ ClickBefore.status = "processing"
    /\ last.resp = ClickError("-4", 400)
    /\ NothingPaid

\* C25: under any sequence of Prepare and Complete calls, an order whose
\* is_paid is 1 has status processing or completed and never pending: a
\* Prepare that comes after a Complete does not move a paid order back to
\* pending.
C25_PaidNeverPending ==
    \A m \in DOMAIN orders :
        orders[m].is_paid = 1
            => /\ orders[m].status \in {"processing", "completed"}
               /\ orders[m].status # "pending"

-----------------------------------------------------------------------------
(* Claims about concurrent callbacks, under RaceSpec *)

RaceCreate(t) ==
    /\ th[t].pc = "done"
    /\ th[t].method = Some("CreateTransaction")
    /\ th[t].order # None
    /\ Val(th[t].order).status = "new"
    /\ Val(th[t].params).amount = Some(Val(th[t].order).amount)

Won(t) == Succeeded(th[t].resp) /\ th[t].resp.result.state = 1
Conflict(t) == ~Succeeded(th[t].resp) /\ th[t].resp.error.code = -31099

\* C3: of two CreateTransaction calls with different transaction ids that
\* both found the order in status new, exactly one does the new -> processing
\* transition and gets the state 1 result, the other gets the -31099
\* conflict, and transaction_id and create_time are written once.
C3_ExactlyOneWinner ==
    \A a, b \in Threads :
        (/\ a # b
         /\ RaceCreate(a) /\ RaceCreate(b)
         /\ Val(th[a].params).order_id = Val(th[b].params).order_id
         /\ Val(th[a].params).id # Val(th[b].params).id)
            => /\ \/ Won(a) /\ Conflict(b)
                  \/ Won(b) /\ Conflict(a)
               /\ th[a].wrote # th[b].wrote

\* thread t has handled this method for the transaction the order is
\* processing
RaceOn(t, method) ==
    /\ th[t].pc = "done"
    /\ th[t].method = Some(method)
    /\ th[t].order # None
    /\ Val(th[t].params).id = Val(th[t].order).transaction_id

State(t, state) == Succeeded(th[t].resp) /\ th[t].resp.result.state = state

\* C22: a PerformTransaction and a CancelTransaction with the matching
\* transaction id, run concurrently on an order in status processing, end
\* as one of the two serial orders does: the order refunded, Perform
\* answered state 2 and Cancel state -2; or the order cancelled, Cancel
\* answered state -1 and Perform the -31008 error. The order is never
\* completed after Cancel answered -1, and never cancelled with
\* perform_time set.
C22_PerformCancelSerial ==
    \A a, b \in Threads :
        (/\ a # b
         /\ RaceOn(a, "PerformTransaction")
         /\ RaceOn(b, "CancelTransaction")
         /\ Val(th[a].params).order_id = Val(th[b].params).order_id
         /\ \/ Val(th[a].order).status = "processing"
            \/ Val(th[b].order).status = "processing")
            => LET order == orders[Val(Val(th[a].params).order_id)]
               IN  /\ \/ /\ order.status = "refunded"
                         /\ State(a, 2) /\ State(b, -2)
                      \/ /\ order.status = "cancelled"
                         /\ State(b, -1)
                         /\ ~Succeeded(th[a].resp)
                         /\ th[a].resp.error.code = -31008
                   /\ ~(order.status = "completed" /\ State(b, -1))
                   /\ ~(order.status = "cancelled"
                        /\ order.perform_time # None)

====
